---- MODULE Spec2Model ----
(***************************************************************************)
(* Model of 100-Challeges/p26.c ("Arrays and Matrices"): main() declares a *)
(* 5-element array and a 3x3 matrix, prints both with for loops and        *)
(* returns 0.                                                              *)
(*                                                                         *)
(* The program has no input.  An invocation is one process running main()  *)
(* from its first statement to its return, with a fresh stack frame (arr,  *)
(* matrix, the loop counters), a fresh standard output and its own exit    *)
(* status.  The program may be invoked again once an invocation has        *)
(* exited, up to NRuns invocations; what earlier invocations did is kept   *)
(* in the history variable past.  Standard output is a sequence of         *)
(* characters; printf is modelled by interpreting its format string        *)
(* character by character.                                                 *)
(*                                                                         *)
(* Program positions are named after the source line about to execute:     *)
(* "L11init", "L11test", "L11incr" are the three clauses of the for        *)
(* statement on line 11, and so on.                                        *)
(***************************************************************************)
EXTENDS Integers, Sequences, FiniteSets, TLC

\* number of invocations of the program that are modelled
NRuns == 2

VARIABLES
    pc,         \* position of the invocation in main()
    arr,        \* int arr[5], indexed 0..4
    matrix,     \* int matrix[3][3], indexed 0..2 then 0..2
    locals,     \* the loop counters in scope (a function name -> int)
    stdout,     \* the characters written so far
    exitStatus, \* <<>> while running, <<status>> after return
    run,        \* number of the current invocation, 1..NRuns
    events,     \* history: the printf calls of the current invocation
    trace,      \* history: the states the current invocation went through
    past        \* history: one record per earlier invocation

vars == <<pc, arr, matrix, locals, stdout, exitStatus, run, events, trace, past>>

----------------------------------------------------------------------------
(* Dimensions and initialisers *)

\* int arr[5]
ArrLen == 5

\* int matrix[3][3]: rows, then columns
MatRows == 3

MatCols == 3

\* the literal bounds written in the three for statements
ArrLoopBound == 5

RowLoopBound == 3

ColLoopBound == 3

\* variant: the values written zero-based
ArrInitListZeroBased == <<0, 1, 2, 3, 4>>

\* = {1, 2, 3, 4, 5}
ArrInitList == <<1, 2, 3, 4, 5>>

\* variant: the last row of the initialiser left out
MatrixInitListShort == << <<1, 2, 3>>,
                          <<4, 5, 6>> >>

\* = {{1, 2, 3}, {4, 5, 6}, {7, 8, 9}}
MatrixInitList == << <<1, 2, 3>>,
                     <<4, 5, 6>>,
                     <<7, 8, 9>> >>

\* the k-th initialiser of a brace list; elements without one are zero
InitAt(list, k) == IF k + 1 <= Len(list) THEN list[k + 1] ELSE 0

\* the array object the initialiser of arr produces (C indexes from 0)
ArrInit == [k \in 0 .. (ArrLen - 1) |-> InitAt(ArrInitList, k)]

\* the array of arrays the initialiser of matrix produces
MatrixInit ==
    [a \in 0 .. (MatRows - 1) |->
        [b \in 0 .. (MatCols - 1) |->
            IF a + 1 <= Len(MatrixInitList)
            THEN InitAt(MatrixInitList[a + 1], b)
            ELSE 0]]

----------------------------------------------------------------------------
(* printf *)

\* "Array elements:\n"
FmtArrHeader ==
    <<"A","r","r","a","y"," ","e","l","e","m","e","n","t","s",":","\n">>

\* "Matrix elements:\n"
FmtMatrixHeader ==
    <<"M","a","t","r","i","x"," ","e","l","e","m","e","n","t","s",":","\n">>

\* variant: "%d", the separating space forgotten
FmtElemNoSpace == <<"%", "d">>

\* "%d "
FmtElem == <<"%", "d", " ">>

\* "\n"
FmtNewline == <<"\n">>

Digit(d) == <<"0","1","2","3","4","5","6","7","8","9">>[d + 1]

RECURSIVE NatToDec(_)
NatToDec(n) ==
    IF n < 10 THEN <<Digit(n)>>
    ELSE NatToDec(n \div 10) \o <<Digit(n % 10)>>

\* the %d conversion: decimal digits, with a leading minus sign when negative
IntToDec(n) == IF n < 0 THEN <<"-">> \o NatToDec(-n) ELSE NatToDec(n)

\* the characters printf writes for format fmt from position p on, with one
\* int argument arg consumed by %d
RECURSIVE FormatFrom(_, _, _)
FormatFrom(fmt, p, arg) ==
    IF p > Len(fmt) THEN <<>>
    ELSE IF fmt[p] = "%" /\ p < Len(fmt) /\ fmt[p + 1] = "d"
         THEN IntToDec(arg) \o FormatFrom(fmt, p + 2, arg)
         ELSE <<fmt[p]>> \o FormatFrom(fmt, p + 1, arg)

\* printf(fmt) with no argument
Printf0(fmt) == FormatFrom(fmt, 1, 0)

\* printf(fmt, arg)
Printf1(fmt, arg) == FormatFrom(fmt, 1, arg)

----------------------------------------------------------------------------
(* Array reads.  Reading outside the object is undefined behaviour: the    *)
(* value is whatever the build finds there.                                *)

Garbage == {-1, 0, 42}

\* the values a read of a[idx] can yield
ReadArr(a, idx) == IF idx \in DOMAIN a THEN {a[idx]} ELSE Garbage

\* variant: the subscripts swapped, m[ci][ri]
ReadMatrixTransposed(m, ri, ci) ==
    IF ci \in DOMAIN m /\ ri \in DOMAIN m[ci] THEN {m[ci][ri]} ELSE Garbage

\* the values a read of m[ri][ci] can yield
ReadMatrix(m, ri, ci) ==
    IF ri \in DOMAIN m /\ ci \in DOMAIN m[ri] THEN {m[ri][ci]} ELSE Garbage

----------------------------------------------------------------------------
(* Block-scoped loop counters *)

NoLocals == [n \in {} |-> 0]

\* declare (or assign) counter name with value v
SetLocal(f, name, v) ==
    [n \in DOMAIN f \cup {name} |-> IF n = name THEN v ELSE f[n]]

\* counter name leaves scope
DropLocal(f, name) == [n \in DOMAIN f \ {name} |-> f[n]]

\* history record of one printf call
Event(line, idx, val) == [line |-> line, idx |-> idx, val |-> val]

----------------------------------------------------------------------------
\* the state of the invocation that the history variable trace records
Snapshot == [pc |-> pc, locals |-> locals, stdout |-> stdout,
             exitStatus |-> exitStatus]

Init ==
    /\ pc = "L10"
    /\ arr = ArrInit
    /\ matrix = MatrixInit
    /\ locals = NoLocals
    /\ stdout = <<>>
    /\ exitStatus = <<>>
    /\ run = 1
    /\ events = <<>>
    /\ trace = <<Snapshot>>
    /\ past = <<>>

\* a printf call at source line `line` writing `chars`, then going to `next`
Write(line, idx, val, chars, next) ==
    /\ stdout' = stdout \o chars
    /\ events' = Append(events, Event(line, idx, val))
    /\ pc' = next

\* a step that writes nothing
Goto(next) ==
    /\ pc' = next
    /\ UNCHANGED <<stdout, events>>

\* the step is added to the history of the invocation
Record ==
    /\ trace' = Append(trace, Snapshot')
    /\ UNCHANGED <<run, past>>

\* printf("Array elements:\n");
PrintArrHeader ==
    /\ pc = "L10"
    /\ Write(10, <<>>, <<>>, Printf0(FmtArrHeader), "L11init")
    /\ UNCHANGED <<arr, matrix, locals, exitStatus>>
    /\ Record

\* for (int i = 0; ...
ArrLoopInit ==
    /\ pc = "L11init"
    /\ locals' = SetLocal(locals, "i", 0)
    /\ Goto("L11test")
    /\ UNCHANGED <<arr, matrix, exitStatus>>
    /\ Record

\* variants: i < 4 and i <= 5
ArrLoopCondShort(iv) == iv < ArrLoopBound - 1

ArrLoopCondLong(iv) == iv <= ArrLoopBound

\* the loop condition i < 5
ArrLoopCond(iv) == iv < ArrLoopBound

\* ... i < 5; ...   (on exit i leaves scope)
ArrLoopTest ==
    /\ pc = "L11test"
    /\ IF ArrLoopCond(locals["i"])
       THEN /\ Goto("L12")
            /\ UNCHANGED locals
       ELSE /\ Goto("L14")
            /\ locals' = DropLocal(locals, "i")
    /\ UNCHANGED <<arr, matrix, exitStatus>>
    /\ Record

\* variant: printf("%d ", arr[i]++);
PrintArrElemIncrementing ==
    /\ pc = "L12"
    /\ \E v \in ReadArr(arr, locals["i"]) :
          /\ Write(12, <<locals["i"]>>, <<v>>, Printf1(FmtElem, v), "L11incr")
          /\ arr' = [k \in DOMAIN arr |-> IF k = locals["i"] THEN v + 1 ELSE arr[k]]
    /\ UNCHANGED <<matrix, locals, exitStatus>>
    /\ Record

\* printf("%d ", arr[i]);
PrintArrElem ==
    /\ pc = "L12"
    /\ \E v \in ReadArr(arr, locals["i"]) :
          Write(12, <<locals["i"]>>, <<v>>, Printf1(FmtElem, v), "L11incr")
    /\ UNCHANGED <<arr, matrix, locals, exitStatus>>
    /\ Record

\* ... i++)
ArrLoopIncr ==
    /\ pc = "L11incr"
    /\ locals' = SetLocal(locals, "i", locals["i"] + 1)
    /\ Goto("L11test")
    /\ UNCHANGED <<arr, matrix, exitStatus>>
    /\ Record

\* printf("\n");
PrintArrNewline ==
    /\ pc = "L14"
    /\ Write(14, <<>>, <<>>, Printf0(FmtNewline), "L16")
    /\ UNCHANGED <<arr, matrix, locals, exitStatus>>
    /\ Record

\* printf("Matrix elements:\n");
PrintMatrixHeader ==
    /\ pc = "L16"
    /\ Write(16, <<>>, <<>>, Printf0(FmtMatrixHeader), "L17init")
    /\ UNCHANGED <<arr, matrix, locals, exitStatus>>
    /\ Record

\* for (int i = 0; ...
RowLoopInit ==
    /\ pc = "L17init"
    /\ locals' = SetLocal(locals, "i", 0)
    /\ Goto("L17test")
    /\ UNCHANGED <<arr, matrix, exitStatus>>
    /\ Record

\* variant: i < 2
RowLoopCondShort(iv) == iv < RowLoopBound - 1

\* the loop condition i < 3
RowLoopCond(iv) == iv < RowLoopBound

\* ... i < 3; ...   (on exit i leaves scope)
RowLoopTest ==
    /\ pc = "L17test"
    /\ IF RowLoopCond(locals["i"])
       THEN /\ Goto("L18init")
            /\ UNCHANGED locals
       ELSE /\ Goto("L24")
            /\ locals' = DropLocal(locals, "i")
    /\ UNCHANGED <<arr, matrix, exitStatus>>
    /\ Record

\* for (int j = 0; ...
ColLoopInit ==
    /\ pc = "L18init"
    /\ locals' = SetLocal(locals, "j", 0)
    /\ Goto("L18test")
    /\ UNCHANGED <<arr, matrix, exitStatus>>
    /\ Record

\* variant: j <= 3
ColLoopCondLong(jv) == jv <= ColLoopBound

\* the loop condition j < 3
ColLoopCond(jv) == jv < ColLoopBound

\* ... j < 3; ...   (on exit j leaves scope)
ColLoopTest ==
    /\ pc = "L18test"
    /\ IF ColLoopCond(locals["j"])
       THEN /\ Goto("L19")
            /\ UNCHANGED locals
       ELSE /\ Goto("L21")
            /\ locals' = DropLocal(locals, "j")
    /\ UNCHANGED <<arr, matrix, exitStatus>>
    /\ Record

\* printf("%d ", matrix[i][j]);
PrintMatrixElem ==
    /\ pc = "L19"
    /\ \E v \in ReadMatrix(matrix, locals["i"], locals["j"]) :
          Write(19, <<locals["i"], locals["j"]>>, <<v>>,
                Printf1(FmtElem, v), "L18incr")
    /\ UNCHANGED <<arr, matrix, locals, exitStatus>>
    /\ Record

\* ... j++)
ColLoopIncr ==
    /\ pc = "L18incr"
    /\ locals' = SetLocal(locals, "j", locals["j"] + 1)
    /\ Goto("L18test")
    /\ UNCHANGED <<arr, matrix, exitStatus>>
    /\ Record

\* printf("\n");
PrintRowNewline ==
    /\ pc = "L21"
    /\ Write(21, <<>>, <<>>, Printf0(FmtNewline), "L17incr")
    /\ UNCHANGED <<arr, matrix, locals, exitStatus>>
    /\ Record

\* ... i++)
RowLoopIncr ==
    /\ pc = "L17incr"
    /\ locals' = SetLocal(locals, "i", locals["i"] + 1)
    /\ Goto("L17test")
    /\ UNCHANGED <<arr, matrix, exitStatus>>
    /\ Record

\* the value main returns
ReturnValue == 0

\* variant: return 1;
ReturnFailure ==
    /\ pc = "L24"
    /\ exitStatus' = <<1>>
    /\ Goto("done")
    /\ UNCHANGED <<arr, matrix, locals>>
    /\ Record

\* return 0;   (main returns: the process exits with that status)
Return ==
    /\ pc = "L24"
    /\ exitStatus' = <<ReturnValue>>
    /\ Goto("done")
    /\ UNCHANGED <<arr, matrix, locals>>
    /\ Record

Done == pc = "done"

\* the program is run again: a new process starts main() with a new stack
\* frame and an empty standard output; what the invocation that exited did
\* is kept in past
Invoke ==
    /\ Done
    /\ run < NRuns
    /\ run' = run + 1
    /\ past' = Append(past, [stdout |-> stdout, exitStatus |-> exitStatus,
                             trace |-> trace])
    /\ pc' = "L10"
    /\ arr' = ArrInit
    /\ matrix' = MatrixInit
    /\ locals' = NoLocals
    /\ stdout' = <<>>
    /\ exitStatus' = <<>>
    /\ events' = <<>>
    /\ trace' = <<Snapshot'>>

\* one step of main()
Step ==
    \/ PrintArrHeader
    \/ ArrLoopInit
    \/ ArrLoopTest
    \/ PrintArrElem
    \/ ArrLoopIncr
    \/ PrintArrNewline
    \/ PrintMatrixHeader
    \/ RowLoopInit
    \/ RowLoopTest
    \/ ColLoopInit
    \/ ColLoopTest
    \/ PrintMatrixElem
    \/ ColLoopIncr
    \/ PrintRowNewline
    \/ RowLoopIncr
    \/ Return

Next == Step \/ Invoke

Spec == Init /\ [][Next]_vars

\* main() is sequential code that never blocks: a step that can be taken is
\* taken.  Nothing obliges anyone to run the program again.
FairSpec == Spec /\ WF_vars(Step)

IsPrefix(s, t) == Len(s) <= Len(t) /\ SubSeq(t, 1, Len(s)) = s

\* number of printf calls in history ev made at source line `line`
CountLine(ev, line) == Cardinality({p \in DOMAIN ev : ev[p].line = line})

\* the printf calls of history ev that wrote an element of the matrix
GridEvents(ev) == SelectSeq(ev, LAMBDA e : e.line = 19)

----------------------------------------------------------------------------
(* C1 *)

\* the output block of the specification, character by character
ExpectedStdout ==
    <<"A","r","r","a","y"," ","e","l","e","m","e","n","t","s",":","\n",
      "1"," ","2"," ","3"," ","4"," ","5"," ","\n",
      "M","a","t","r","i","x"," ","e","l","e","m","e","n","t","s",":","\n",
      "1"," ","2"," ","3"," ","\n",
      "4"," ","5"," ","6"," ","\n",
      "7"," ","8"," ","9"," ","\n">>

\* C1: at termination standard output is exactly the specified block
\* (numeric lines end with a space before the newline, headers do not), and
\* nothing else is ever written: at every moment the output so far is a
\* prefix of that block.
C1_ExactOutput ==
    /\ IsPrefix(stdout, ExpectedStdout)
    /\ Done => stdout = ExpectedStdout

C1_Witness == Done /\ Len(stdout) = Len(ExpectedStdout)

----------------------------------------------------------------------------
(* C2 *)

\* the part of the output a printf call belongs to: the first header, the
\* Sequence elements, their newline, the second header, the Grid rows
Phase(e) ==
    CASE e.line = 10 -> 0
      [] e.line = 12 -> 1
      [] e.line = 14 -> 2
      [] e.line = 16 -> 3
      [] OTHER       -> 4

\* C2: the output events occur in the order header "Array elements:" (the
\* first event), the five Sequence elements in index order (events 2 to 6),
\* their newline (event 7), header "Matrix elements:" (event 8), the Grid
\* rows; no Grid element precedes the second header and no Sequence element
\* follows it.
C2_OutputOrder ==
    /\ \A p \in 1 .. (Len(events) - 1) : Phase(events[p]) <= Phase(events[p + 1])
    /\ \A p \in DOMAIN events :
          /\ events[p].line \in {10, 12, 14, 16, 19, 21}
          /\ events[p].line = 10 => p = 1
          /\ events[p].line = 12 => p \in 2 .. 6 /\ events[p].idx = <<p - 2>>
          /\ events[p].line = 14 => p = 7
          /\ events[p].line = 16 => p = 8
          /\ events[p].line \in {19, 21} => p > 8

C2_Witness == CountLine(events, 16) = 1 /\ CountLine(events, 19) > 0

----------------------------------------------------------------------------
(* C3 *)

\* C3: the Grid is written in row-major order: the k-th grid value written
\* (counting from 0) is element (k div 3, k mod 3); a newline follows the
\* column-2 element of each row and nothing else, three newlines in total.
C3_RowMajor ==
    LET g == GridEvents(events) IN
    /\ \A k \in DOMAIN g :
          /\ g[k].idx = <<(k - 1) \div 3, (k - 1) % 3>>
          /\ g[k].val = <<matrix[(k - 1) \div 3][(k - 1) % 3]>>
    /\ \A p \in DOMAIN events :
          events[p].line = 21 =>
             /\ events[p - 1].line = 19
             /\ events[p - 1].idx[2] = 2
    /\ \A p \in DOMAIN events :
          (events[p].line = 19 /\ p < Len(events)) =>
             (events[p + 1].line = 21 <=> events[p].idx[2] = 2)
    /\ CountLine(events, 21) <= 3
    /\ Done => Len(g) = 9 /\ CountLine(events, 21) = 3

C3_Witness == Len(GridEvents(events)) = 9 /\ CountLine(events, 21) = 3

----------------------------------------------------------------------------
(* C4 *)

\* C4: the exit status is 0 in every terminated state, and no state has a
\* non-zero exit status.
C4_ExitZero ==
    /\ exitStatus \in {<<>>, <<0>>}
    /\ Done => exitStatus = <<0>>
    /\ \A k \in DOMAIN past : past[k].exitStatus = <<0>>

C4_Witness == Done /\ exitStatus # <<>>

----------------------------------------------------------------------------
(* C5 *)

\* C5: in every state, element i of the Sequence is i + 1 for i in 0..4.
C5_SequenceValues ==
    /\ DOMAIN arr = 0 .. 4
    /\ \A k \in 0 .. 4 : arr[k] = k + 1

C5_Witness == Done /\ arr[4] = 5

----------------------------------------------------------------------------
(* C6 *)

\* C6: in every state, element (a, b) of the Grid is a * 3 + b + 1 for a, b
\* in 0..2.
C6_GridValues ==
    /\ DOMAIN matrix = 0 .. 2
    /\ \A a \in 0 .. 2 :
          /\ DOMAIN matrix[a] = 0 .. 2
          /\ \A b \in 0 .. 2 : matrix[a][b] = a * 3 + b + 1

C6_Witness == Done /\ matrix[2][2] = 9

----------------------------------------------------------------------------
(* C7 *)

InScope(name) == name \in DOMAIN locals

\* positions inside the for statement of line 11, and of line 17
ArrLoopPcs == {"L11test", "L12", "L11incr"}

RowLoopPcs == {"L17test", "L18init", "L18test", "L19", "L18incr", "L21", "L17incr"}

\* C7: every read of arr[i] has 0 <= i < 5 and every read of matrix[i][j]
\* has 0 <= i < 3 and 0 <= j < 3; a counter holds the out-of-range value 5
\* (or 3) only at its loop-exit test, where nothing is read.
C7_NoOutOfBounds ==
    /\ pc = "L12" => locals["i"] \in 0 .. 4
    /\ pc = "L19" => locals["i"] \in 0 .. 2 /\ locals["j"] \in 0 .. 2
    /\ \A p \in DOMAIN events :
          /\ events[p].line = 12 => events[p].idx[1] \in 0 .. 4
          /\ events[p].line = 19 =>
                events[p].idx[1] \in 0 .. 2 /\ events[p].idx[2] \in 0 .. 2
    /\ (pc \in ArrLoopPcs /\ locals["i"] \notin 0 .. 4) =>
          locals["i"] = 5 /\ pc = "L11test"
    /\ (pc \in RowLoopPcs /\ locals["i"] \notin 0 .. 2) =>
          locals["i"] = 3 /\ pc = "L17test"
    /\ (InScope("j") /\ locals["j"] \notin 0 .. 2) =>
          locals["j"] = 3 /\ pc = "L18test"
    /\ InScope("i") <=> pc \in ArrLoopPcs \cup RowLoopPcs

C7_Witness == pc = "L11test" /\ locals["i"] = 5 /\ CountLine(events, 12) = 5

----------------------------------------------------------------------------
(* C8 *)

\* C8: every step of an invocation leaves the contents and dimensions of
\* the Sequence and the Grid unchanged; only the loop counters, the position
\* and standard output change, and the exit status is set by the exit step
\* alone.
C8_ContainersImmutable ==
    [][run' = run =>
          /\ arr' = arr
          /\ matrix' = matrix
          /\ exitStatus' # exitStatus => pc = "L24" /\ pc' = "done"]_vars

C8_Witness ==
    /\ Done
    /\ CountLine(events, 12) = 5
    /\ CountLine(events, 19) = 9
    /\ arr = ArrInit
    /\ matrix = MatrixInit

----------------------------------------------------------------------------
(* C9 *)

\* C9: repeated invocations behave identically.  Stepped side by side with
\* any earlier invocation, the current one is, after n steps, in the state
\* the earlier one was in after n steps (same position, same counters, same
\* output so far, same exit status); it ends after the same number of steps
\* with the same output and the same exit status.
C9_RunsAgree ==
    \A k \in DOMAIN past :
        /\ Len(trace) <= Len(past[k].trace)
        /\ past[k].trace[Len(trace)] = Snapshot
        /\ IsPrefix(stdout, past[k].stdout)
        /\ Done =>
              /\ Len(trace) = Len(past[k].trace)
              /\ stdout = past[k].stdout
              /\ exitStatus = past[k].exitStatus

C9_Witness == past # <<>> /\ Done /\ stdout # <<>>

----------------------------------------------------------------------------
(* C10 *)

\* the value of counter name, as a sequence (empty when out of scope)
Counter(name) == IF InScope(name) THEN <<locals[name]>> ELSE <<>>

\* counter name is assigned only by its declaration and by its increment
CounterIncreases(name) ==
    (InScope(name) /\ InScope(name)' /\ Counter(name)' # Counter(name)) =>
        Counter(name)'[1] = Counter(name)[1] + 1

\* C10: every invocation reaches the exit state, after exactly 2 header
\* writes, 5 Sequence element writes, 9 Grid element writes and 4 newline
\* writes; the loop counters only increase, up to the bounds 5 and 3; and
\* an invocation that has not exited can always take a step.
C10_Terminates ==
    /\ [](~Done => <>Done)
    /\ [](/\ Done =>
               /\ CountLine(events, 10) + CountLine(events, 16) = 2
               /\ CountLine(events, 12) = 5
               /\ CountLine(events, 19) = 9
               /\ CountLine(events, 14) + CountLine(events, 21) = 4
               /\ Len(events) = 20
          /\ Len(events) <= 20
          /\ ~Done => ENABLED Step)
    /\ [][/\ CounterIncreases("i")
          /\ CounterIncreases("j")]_vars

C10_Witness == Done /\ Len(events) = 20 /\ exitStatus # <<>>
====
